---- MODULE Spec2Model ----
(***************************************************************************)
(* GCPSecretManager (secretmgr.go): configuration from the environment,     *)
(* a client around the remote secret capability, and the loader that       *)
(* parses the fetched text into environment variables.                     *)
(*                                                                         *)
(* A Go string is a sequence of one-character strings.  Four symbols stand *)
(* for bytes that cannot be written as a TLA+ character: "LF" the newline  *)
(* byte, "CR" the carriage return, "TAB" the tab and "NUL" the zero byte;  *)
(* "BIG" stands for a run of MaxScanTokenSize ordinary bytes.              *)
(***************************************************************************)
EXTENDS Integers, Sequences, FiniteSets, TLC

VARIABLES
    osenv,        \* the process environment: key -> value
    client,       \* the Client under use (its config), or NoClient
    secret,       \* the text the remote service holds for the secret
    accessCount,  \* AccessSecretVersion invocations made on the capability
    closeCount,   \* Close invocations made on the capability
    calls,        \* GetSecret / LoadSecretToEnv calls started on the Client
    lastReq,      \* resource name of the last AccessSecretVersion request
    lastAccessOK, \* whether the last AccessSecretVersion returned a payload
    pc,           \* "idle", or "scan" inside LoadSecretToEnv's loop
    scanRest,     \* LoadSecretToEnv: content the scanner has not read yet
    lineNum,      \* LoadSecretToEnv: the loop's lineNum
    env0,         \* the environment when the running/last call started
    trace,        \* per line scanned in the running/last load: what was done
    ret           \* what the last finished call returned

vars == <<osenv, client, secret, accessCount, closeCount, calls, lastReq,
          lastAccessOK, pc, scanRest, lineNum, env0, trace, ret>>

(***************************************************************************)
(* Bounds of the model.                                                    *)
(***************************************************************************)
MaxCalls == 3
MaxLines == 3
MaxLineLen == 5

\* bufio.MaxScanTokenSize, the limit of the scanner bufio.NewScanner builds
MaxScanTokenSize == 65536

(***************************************************************************)
(* Strings.                                                                *)
(***************************************************************************)
Range(s) == {s[i] : i \in 1..Len(s)}

\* unicode.IsSpace, on the bytes the model uses
IsSpace(c) == c \in {" ", "TAB", "LF", "CR"}

RECURSIVE TrimLeft(_)
TrimLeft(s) ==
    IF s # <<>> /\ IsSpace(Head(s)) THEN TrimLeft(Tail(s)) ELSE s

RECURSIVE TrimRight(_)
TrimRight(s) ==
    IF s # <<>> /\ IsSpace(s[Len(s)])
    THEN TrimRight(SubSeq(s, 1, Len(s) - 1))
    ELSE s

\* strings.TrimSpace
TrimSpace(s) == TrimRight(TrimLeft(s))

\* strings.Index(s, c) + 1; 0 when c does not occur
IndexOf(s, c) ==
    IF c \in Range(s)
    THEN CHOOSE i \in 1..Len(s) : s[i] = c /\ \A j \in 1..(i - 1) : s[j] # c
    ELSE 0

\* strings.Contains(s, c)
Contains(s, c) == c \in Range(s)

\* len(s) in bytes
RECURSIVE ByteLen(_)
ByteLen(s) ==
    IF s = <<>> THEN 0
    ELSE (IF Head(s) = "BIG" THEN MaxScanTokenSize ELSE 1) + ByteLen(Tail(s))

\* strings.Split(s, "=") cut short: as many parts as there are '=' plus one
RECURSIVE SplitAll(_)
SplitAll(s) ==
    LET i == IndexOf(s, "=")
    IN  IF i = 0 THEN <<s>>
        ELSE <<SubSeq(s, 1, i - 1)>> \o SplitAll(SubSeq(s, i + 1, Len(s)))

\* strings.SplitN(line, "=", 2): split on the first '=' only
SplitN2(line) ==
    LET i == IndexOf(line, "=")
    IN  IF i = 0 THEN <<line>>
        ELSE <<SubSeq(line, 1, i - 1), SubSeq(line, i + 1, Len(line))>>

(***************************************************************************)
(* Errors.  chain holds the prefixes fmt.Errorf("...: %w") wrapped around  *)
(* the innermost error, outermost first.                                   *)
(***************************************************************************)
NilErr ==
    [kind |-> "nil", chain |-> <<>>, line |-> <<>>, lineNum |-> 0, reason |-> ""]

ConfigError(field) ==
    [kind |-> "ConfigError", chain |-> <<>>, line |-> <<>>, lineNum |-> 0,
     reason |-> field]

ParseError(line, n, reason) ==
    [kind |-> "ParseError", chain |-> <<>>, line |-> line, lineNum |-> n,
     reason |-> reason]

OtherError(kind, msg) ==
    [kind |-> kind, chain |-> <<>>, line |-> <<>>, lineNum |-> 0, reason |-> msg]

Wrap(prefix, e) == [e EXCEPT !.chain = <<prefix>> \o @]

\* err.Error() contains msg
ErrorContains(e, msg) == e.kind # "nil" /\ (msg \in Range(e.chain) \/ e.reason = msg)

ReasonNoEq == "line must contain exactly one '=' character"
ReasonEmptyKey == "empty key is not allowed"
ReasonBracket == "invalid specific key-value pair"
ReasonSetenv == "failed to set environment variable: setenv: invalid argument"

(***************************************************************************)
(* The process environment.                                                *)
(***************************************************************************)
GCP_PROJECT_ID == <<"G","C","P","_","P","R","O","J","E","C","T","_","I","D">>
SECRET_NAME == <<"S","E","C","R","E","T","_","N","A","M","E">>
SECRET_VERSION == <<"S","E","C","R","E","T","_","V","E","R","S","I","O","N">>
Latest == <<"l","a","t","e","s","t">>

EmptyEnv == [k \in {} |-> <<>>]

\* os.Getenv: the value, or "" when the variable is not set
Getenv(env, key) == IF key \in DOMAIN env THEN env[key] ELSE <<>>

\* os.Setenv accepts the pair (syscall.Setenv: EINVAL otherwise)
SetenvAccepts(key, value) ==
    /\ key # <<>>
    /\ ~Contains(key, "=")
    /\ ~Contains(key, "NUL")
    /\ ~Contains(value, "NUL")

\* the environment after a successful os.Setenv(key, value)
Setenv(env, key, value) ==
    [k \in DOMAIN env \cup {key} |-> IF k = key THEN value ELSE env[k]]

(***************************************************************************)
(* Config and NewConfig.                                                   *)
(***************************************************************************)
NoConfig == [ProjectID |-> <<>>, SecretName |-> <<>>, SecretVersion |-> <<>>]

\* NewConfig with the two required checks in the wrong order
NewConfigNameFirst(env) ==
    LET projectID == Getenv(env, GCP_PROJECT_ID)
        secretName == Getenv(env, SECRET_NAME)
        secretVersion == Getenv(env, SECRET_VERSION)
    IN  IF secretName = <<>>
        THEN [config |-> NoConfig, err |-> ConfigError("SECRET_NAME")]
        ELSE IF projectID = <<>>
        THEN [config |-> NoConfig, err |-> ConfigError("GCP_PROJECT_ID")]
        ELSE [config |-> [ProjectID |-> projectID, SecretName |-> secretName,
                          SecretVersion |-> IF secretVersion = <<>> THEN Latest
                                            ELSE secretVersion],
              err |-> NilErr]

NewConfig(env) ==
    LET projectID == Getenv(env, GCP_PROJECT_ID)
        secretName == Getenv(env, SECRET_NAME)
        secretVersion == Getenv(env, SECRET_VERSION)
    IN  IF projectID = <<>>
        THEN [config |-> NoConfig, err |-> ConfigError("GCP_PROJECT_ID")]
        ELSE IF secretName = <<>>
        THEN [config |-> NoConfig, err |-> ConfigError("SECRET_NAME")]
        ELSE [config |-> [ProjectID |-> projectID, SecretName |-> secretName,
                          SecretVersion |-> IF secretVersion = <<>> THEN Latest
                                            ELSE secretVersion],
              err |-> NilErr]

(***************************************************************************)
(* parseAndSetEnv.                                                         *)
(***************************************************************************)
KeyOf(parts) == TrimSpace(parts[1])

\* the value taken as it stands, without strings.TrimSpace
ValueOfUntrimmed(parts) == parts[2]

ValueOf(parts) == TrimSpace(parts[2])

\* the bracket test with the check of the last byte left out
IsBracketedOpenOnly(value) == Len(value) > 2 /\ value[1] = "["

\* len(value) > 2 && value[0] == '[' && value[len(value)-1] == ']'
IsBracketed(value) ==
    Len(value) > 2 /\ value[1] = "[" /\ value[Len(value)] = "]"

\* the inner text trimmed once more
UnbracketTrimmed(value) == TrimSpace(SubSeq(value, 2, Len(value) - 1))

\* value[1 : len(value)-1]
Unbracket(value) == SubSeq(value, 2, Len(value) - 1)

\* parseAndSetEnv(line, lineNum) run on environment env: the error returned,
\* the environment afterwards, and the pair written (wrote) if any
parseAndSetEnv(line, n, env) ==
    LET parts == SplitN2(line)
        Fail(reason) ==
            [err |-> ParseError(line, n, reason), env |-> env, wrote |-> FALSE,
             key |-> <<>>, value |-> <<>>]
    IN  IF Len(parts) # 2 THEN Fail(ReasonNoEq)
        ELSE LET key == KeyOf(parts)
                 value == ValueOf(parts)
             IN  IF key = <<>> THEN Fail(ReasonEmptyKey)
                 ELSE IF Contains(value, "=") /\ ~IsBracketed(value)
                 THEN Fail(ReasonBracket)
                 ELSE LET v == IF Contains(value, "=") THEN Unbracket(value)
                               ELSE value
                      IN  IF ~SetenvAccepts(key, v) THEN Fail(ReasonSetenv)
                          ELSE [err |-> NilErr, env |-> Setenv(env, key, v),
                                wrote |-> TRUE, key |-> key, value |-> v]

(***************************************************************************)
(* The scanner of LoadSecretToEnv: bufio.Scanner with bufio.ScanLines.     *)
(***************************************************************************)
\* dropCR: a line's trailing carriage return is not part of it
DropCR(s) ==
    IF s # <<>> /\ s[Len(s)] = "CR" THEN SubSeq(s, 1, Len(s) - 1) ELSE s

\* the next line does not fit the scanner's buffer: Scan() returns false and
\* Err() is bufio.ErrTooLong
ScanTooLong(data) ==
    LET i == IndexOf(data, "LF")
    IN  IF i > 0 THEN ByteLen(SubSeq(data, 1, i)) > MaxScanTokenSize
        ELSE ByteLen(data) >= MaxScanTokenSize

\* scanner.Text() after a Scan() that returned true
ScanToken(data) ==
    LET i == IndexOf(data, "LF")
    IN  IF i > 0 THEN DropCR(SubSeq(data, 1, i - 1)) ELSE DropCR(data)

\* what is left to read after that Scan()
ScanAdvance(data) ==
    LET i == IndexOf(data, "LF")
    IN  IF i > 0 THEN SubSeq(data, i + 1, Len(data)) ELSE <<>>

(***************************************************************************)
(* Secret texts the remote service may hold.                               *)
(***************************************************************************)
FOO == <<"F","O","O">>
S_FOO_bar == <<"F","O","O","=","b","a","r">>
S_FOO_bar_baz == <<"F","O","O","=","b","a","r","=","b","a","z">>
S_FOO_a_b == <<"F","O","O","=","[","a","=","b","]">>
S_K_nested == <<"K","=","[","[","a","=","b","]","]">>
S_K_two_eq == <<"K","=","[","a","=","b","=","c","]">>
S_K_open == <<"K","=","[","a","=","b">>
S_K_partial == <<"K","=","x","[","a","=","b","]">>
S_K_spaces == <<"K","=","["," ","a","=","b"," ","]">>
S_KEY_empty == <<"K","E","Y","=">>
S_empty_key == <<"=","v","a","l","u","e">>
S_spaced == <<" ","B"," ","="," ","c"," ">>

\* lines the multi-line secrets are made of
LineSet ==
    { <<"A","=","b">>, <<"B","=">>, <<>>, <<" ","TAB">>, <<"o","o","p","s">>,
      <<"A","=","[","x","=","y","]">> }

\* bytes the one-line secrets are made of
Alphabet == {"A", "=", "[", "]", " ", "NUL"}

RECURSIVE Strings(_)
Strings(n) ==
    IF n = 0 THEN {<<>>}
    ELSE LET shorter == Strings(n - 1)
         IN  shorter \cup {Append(s, c) : s \in {t \in shorter : Len(t) = n - 1},
                                          c \in Alphabet}

RECURSIVE JoinLines(_)
JoinLines(ls) ==
    IF ls = <<>> THEN <<>>
    ELSE IF Len(ls) = 1 THEN ls[1]
    ELSE ls[1] \o <<"LF">> \o JoinLines(Tail(ls))

RECURSIVE LineSeqs(_)
LineSeqs(n) ==
    IF n = 0 THEN {<<>>}
    ELSE LET shorter == LineSeqs(n - 1)
         IN  shorter \cup {Append(ls, l) : ls \in {t \in shorter : Len(t) = n - 1},
                                           l \in LineSet}

Examples ==
    { S_FOO_bar, S_FOO_bar_baz, S_FOO_a_b, S_K_nested, S_K_two_eq, S_K_open,
      S_K_partial, S_K_spaces, S_KEY_empty, S_empty_key, S_spaced,
      \* CRLF line ends, and a final newline
      <<"A","=","b","CR","LF","CR","LF","o","o","p","s","CR","LF","B","=","LF">>,
      \* a line longer than the scanner's buffer, alone and after a valid line
      <<"BIG">>,
      <<"A","=","b","LF","BIG","LF","B","=">>,
      <<"A","=","b","LF"," ","BIG","=","LF">>,
      \* a key the environment refuses, between valid lines
      <<"A","=","b","LF","N","NUL","=","c","LF","B","=">> }

LoadSecrets ==
    Examples \cup Strings(MaxLineLen) \cup {JoinLines(ls) : ls \in LineSeqs(MaxLines)}

LifecycleSecrets ==
    { S_FOO_bar, S_FOO_bar_baz, <<>>,
      <<"A","=","b","LF","LF","B","=","LF","o","o","p","s","LF","A","=","c">> }

\* values GCP_PROJECT_ID, SECRET_NAME and SECRET_VERSION may have at start:
\* unset ("-"), set to the empty string, or set to a name
ConfigValues == {<<"-">>, <<>>, <<"p">>}

ConfigEnv(p, n, v) ==
    LET set == {x \in { <<GCP_PROJECT_ID, p>>, <<SECRET_NAME, n>>,
                        <<SECRET_VERSION, v>> } : x[2] # <<"-">>}
    IN  [k \in {x[1] : x \in set} |->
            (CHOOSE x \in set : x[1] = k)[2]]

(***************************************************************************)
(* Client.                                                                 *)
(***************************************************************************)
NoClient == [made |-> FALSE, config |-> NoConfig]

Running == [op |-> "running", err |-> NilErr, value |-> <<>>]

Ret(op, err, value) == [op |-> op, err |-> err, value |-> value]

\* fmt.Sprintf("projects/%s/secrets/%s/versions/%s", ...)
ResourceName(config) ==
    <<"projects/">> \o config.ProjectID \o <<"/secrets/">> \o config.SecretName
        \o <<"/versions/">> \o config.SecretVersion

\* AccessSecretVersion called again after it failed
AccessSecretVersionRetry(ok) ==
    /\ accessCount' = accessCount + (IF ok THEN 1 ELSE 2)
    /\ lastReq' = ResourceName(client.config)
    /\ lastAccessOK' = ok

\* c.client.AccessSecretVersion(ctx, req): one invocation of the capability,
\* which answers with the payload (ok) or with an error
AccessSecretVersion(ok) ==
    /\ accessCount' = accessCount + 1
    /\ lastReq' = ResourceName(client.config)
    /\ lastAccessOK' = ok

\* GetSecret that refuses to work on a closed Client
GetSecretResultClosedCheck(ok) ==
    IF ok /\ closeCount = 0 THEN [value |-> secret, err |-> NilErr]
    ELSE [value |-> <<>>,
          err |-> Wrap("failed to access secret", OtherError("remote", "access error"))]

\* what Client.GetSecret returns when the capability answered ok / not ok
GetSecretResult(ok) ==
    IF ok THEN [value |-> secret, err |-> NilErr]
    ELSE [value |-> <<>>,
          err |-> Wrap("failed to access secret", OtherError("remote", "access error"))]

Init ==
    /\ \E p \in ConfigValues, n \in ConfigValues, v \in ConfigValues :
           osenv = ConfigEnv(p, n, v)
    /\ client = NoClient
    /\ secret \in LifecycleSecrets
    /\ accessCount = 0
    /\ closeCount = 0
    /\ calls = 0
    /\ lastReq = <<>>
    /\ lastAccessOK = FALSE
    /\ pc = "idle"
    /\ scanRest = <<>>
    /\ lineNum = 0
    /\ env0 = osenv
    /\ trace = <<>>
    /\ ret = Ret("none", NilErr, <<>>)

\* TestLoadSecretToEnv: a Client built directly around the capability, with
\* an empty Config
InitLoad ==
    /\ osenv = EmptyEnv
    /\ client = [made |-> TRUE, config |-> NoConfig]
    /\ secret \in LoadSecrets
    /\ accessCount = 0
    /\ closeCount = 0
    /\ calls = 0
    /\ lastReq = <<>>
    /\ lastAccessOK = FALSE
    /\ pc = "idle"
    /\ scanRest = <<>>
    /\ lineNum = 0
    /\ env0 = osenv
    /\ trace = <<>>
    /\ ret = Ret("none", NilErr, <<>>)

\* NewSecret(ctx); factoryOK: defaultClientFactory returned a capability
NewSecret(factoryOK) ==
    /\ pc = "idle"
    /\ ~client.made
    /\ LET c == NewConfig(osenv)
       IN  IF c.err # NilErr
           THEN /\ ret' = Ret("NewSecret", Wrap("failed to create config", c.err), <<>>)
                /\ UNCHANGED client
           ELSE IF ~factoryOK
           THEN /\ ret' = Ret("NewSecret",
                              Wrap("failed to create secret manager client",
                                   OtherError("factory", "error")), <<>>)
                /\ UNCHANGED client
           ELSE /\ ret' = Ret("NewSecret", NilErr, <<>>)
                /\ client' = [made |-> TRUE, config |-> c.config]
    /\ UNCHANGED <<osenv, secret, accessCount, closeCount, calls, lastReq,
                   lastAccessOK, pc, scanRest, lineNum, env0, trace>>

\* Client.GetSecret(ctx)
GetSecret(ok) ==
    /\ pc = "idle"
    /\ client.made
    /\ calls < MaxCalls
    /\ calls' = calls + 1
    /\ AccessSecretVersion(ok)
    /\ LET r == GetSecretResult(ok)
       IN  ret' = Ret("GetSecret", r.err, r.value)
    /\ env0' = osenv
    /\ UNCHANGED <<osenv, client, secret, closeCount, pc, scanRest, lineNum, trace>>

\* Client.Close(); closeOK: the capability's Close returned nil
Close(closeOK) ==
    /\ pc = "idle"
    /\ client.made
    /\ closeCount < MaxCalls
    /\ closeCount' = closeCount + 1
    /\ ret' = Ret("Close",
                  IF closeOK THEN NilErr
                  ELSE Wrap("failed to close secret manager client",
                            OtherError("remote", "close error")), <<>>)
    /\ UNCHANGED <<osenv, client, secret, accessCount, calls, lastReq,
                   lastAccessOK, pc, scanRest, lineNum, env0, trace>>

\* LoadSecretToEnv going on to the loop although GetSecret returned an error
LoadFetchedIgnoreErr(r) ==
    /\ ret' = Running
    /\ scanRest' = r.value
    /\ pc' = "scan"

\* LoadSecretToEnv once GetSecret has returned r: return its error wrapped,
\* or build the scanner over the content
LoadFetched(r) ==
    IF r.err # NilErr
    THEN /\ ret' = Ret("LoadSecretToEnv", Wrap("failed to retrieve secret", r.err), <<>>)
         /\ UNCHANGED <<pc, scanRest>>
    ELSE /\ ret' = Running
         /\ scanRest' = r.value
         /\ pc' = "scan"

\* LoadSecretToEnv, up to the loop: the fetch through GetSecret
LoadStart(ok) ==
    /\ pc = "idle"
    /\ client.made
    /\ calls < MaxCalls
    /\ calls' = calls + 1
    /\ AccessSecretVersion(ok)
    /\ env0' = osenv
    /\ trace' = <<>>
    /\ lineNum' = 0
    /\ LoadFetched(GetSecretResult(ok))
    /\ UNCHANGED <<osenv, client, secret, closeCount>>

\* the loop's counter after one more scanner.Scan(), counting only the lines
\* that are not blank
NextLineNumNonBlank(n, line) == IF line = <<>> THEN n ELSE n + 1

\* lineNum++
NextLineNum(n, line) == n + 1

\* the scanned text taken as the line without strings.TrimSpace
ScanLineUntrimmed(token) == token

\* line := strings.TrimSpace(scanner.Text())
ScanLine(token) == TrimSpace(token)

\* one turn of the loop: scanner.Scan() returned true
LoadScan ==
    /\ pc = "scan"
    /\ scanRest # <<>>
    /\ ~ScanTooLong(scanRest)
    /\ LET line == ScanLine(ScanToken(scanRest))
           n == NextLineNum(lineNum, line)
       IN  /\ lineNum' = n
           /\ scanRest' = ScanAdvance(scanRest)
           /\ IF line = <<>>
              THEN /\ trace' = Append(trace, [n |-> n, line |-> line, did |-> "skip",
                                              key |-> <<>>, value |-> <<>>])
                   /\ UNCHANGED <<osenv, pc, ret>>
              ELSE LET r == parseAndSetEnv(line, n, osenv)
                   IN  /\ osenv' = r.env
                       /\ trace' = Append(trace,
                              [n |-> n, line |-> line,
                               did |-> IF r.wrote THEN "set" ELSE "reject",
                               key |-> r.key, value |-> r.value])
                       /\ IF r.err # NilErr
                          THEN /\ ret' = Ret("LoadSecretToEnv",
                                             Wrap("failed to set environment variable",
                                                  r.err), <<>>)
                               /\ pc' = "idle"
                          ELSE UNCHANGED <<pc, ret>>
    /\ UNCHANGED <<client, secret, accessCount, closeCount, calls, lastReq,
                   lastAccessOK, env0>>

\* the end of the loop: scanner.Scan() returned false, at the end of the
\* content or on a line that does not fit the scanner's buffer
LoadReturn ==
    /\ pc = "scan"
    /\ scanRest = <<>> \/ ScanTooLong(scanRest)
    /\ ret' = Ret("LoadSecretToEnv",
                  IF scanRest = <<>> THEN NilErr
                  ELSE Wrap("error reading secret content",
                            OtherError("ErrTooLong", "bufio.Scanner: token too long")),
                  <<>>)
    /\ pc' = "idle"
    /\ scanRest' = <<>>
    /\ UNCHANGED <<osenv, client, secret, accessCount, closeCount, calls, lastReq,
                   lastAccessOK, lineNum, env0, trace>>

Next ==
    \/ \E factoryOK \in BOOLEAN : NewSecret(factoryOK)
    \/ \E ok \in BOOLEAN : GetSecret(ok)
    \/ \E closeOK \in BOOLEAN : Close(closeOK)
    \/ \E ok \in BOOLEAN : LoadStart(ok)
    \/ LoadScan
    \/ LoadReturn

Spec == Init /\ [][Next]_vars

\* one LoadSecretToEnv call on the directly built Client
NextLoad ==
    \/ \E ok \in BOOLEAN : calls = 0 /\ LoadStart(ok)
    \/ LoadScan
    \/ LoadReturn

SpecLoad == InitLoad /\ [][NextLoad]_vars

(***************************************************************************)
(* Properties.  ret is what the last finished call returned, so a property *)
(* of a call is stated on the states in which ret is that call's result;   *)
(* trace and env0 are those of the same call.                              *)
(***************************************************************************)
Last == trace[Len(trace)]

LoadReturned == pc = "idle" /\ ret.op = "LoadSecretToEnv"

\* the environment after the writes of the first k lines of trace t
RECURSIVE ApplyTrace(_, _, _)
ApplyTrace(env, t, k) ==
    IF k = 0 THEN env
    ELSE LET before == ApplyTrace(env, t, k - 1)
         IN  IF t[k].did = "set" THEN Setenv(before, t[k].key, t[k].value)
             ELSE before

IsBlank(s) == \A i \in 1..Len(s) : IsSpace(s[i])

\* C5: whenever the AccessSecretVersion call of LoadSecretToEnv fails, the
\* call returns an error containing "failed to retrieve secret", no line is
\* scanned and the environment is what it was before the call.
C5_FetchFailureLeavesEnv ==
    (ret.op = "LoadSecretToEnv" /\ ~lastAccessOK) =>
        /\ pc = "idle"
        /\ ErrorContains(ret.err, "failed to retrieve secret")
        /\ osenv = env0
        /\ trace = <<>>

C5_Witness ==
    /\ ret.op = "LoadSecretToEnv"
    /\ ~lastAccessOK
    /\ secret = S_FOO_bar
    /\ osenv # EmptyEnv

\* C6: NewConfig, as NewSecret shows it, for every combination of unset,
\* empty and set GCP_PROJECT_ID, SECRET_NAME and SECRET_VERSION: ConfigError
\* "GCP_PROJECT_ID" when the project is absent or empty whatever the others
\* are, ConfigError "SECRET_NAME" when only the name is absent or empty,
\* otherwise no ConfigError and a Config of the two identifiers with the
\* version, "latest" when SECRET_VERSION is absent or empty.
C6_NewConfig ==
    ret.op = "NewSecret" =>
        LET p == IF GCP_PROJECT_ID \in DOMAIN osenv THEN osenv[GCP_PROJECT_ID] ELSE <<>>
            n == IF SECRET_NAME \in DOMAIN osenv THEN osenv[SECRET_NAME] ELSE <<>>
            v == IF SECRET_VERSION \in DOMAIN osenv THEN osenv[SECRET_VERSION] ELSE <<>>
        IN  /\ p = <<>> =>
                 /\ ret.err.kind = "ConfigError"
                 /\ ret.err.reason = "GCP_PROJECT_ID"
                 /\ ~client.made
            /\ (p # <<>> /\ n = <<>>) =>
                 /\ ret.err.kind = "ConfigError"
                 /\ ret.err.reason = "SECRET_NAME"
                 /\ ~client.made
            /\ (p # <<>> /\ n # <<>>) =>
                 /\ ret.err.kind # "ConfigError"
                 /\ ret.err = NilErr =>
                      /\ client.made
                      /\ client.config =
                           [ProjectID |-> p, SecretName |-> n,
                            SecretVersion |-> IF v = <<>> THEN <<"l","a","t","e","s","t">>
                                              ELSE v]

C6_Witness ==
    /\ ret.op = "NewSecret"
    /\ client.made
    /\ SECRET_VERSION \in DOMAIN osenv
    /\ osenv[SECRET_VERSION] = <<>>
    /\ client.config.SecretVersion = Latest

C8_OneFetchPerCall == accessCount = calls

C8_Witness ==
    /\ calls = MaxCalls
    /\ accessCount = MaxCalls
    /\ ret.op = "LoadSecretToEnv"
    /\ ~lastAccessOK
    /\ osenv # EmptyEnv /\ FOO \in DOMAIN osenv

(***************************************************************************)
(* Properties of the loader.  A line is what the scanner hands to the      *)
(* loop; its key and value are the trimmed texts before and after its      *)
(* first '='.                                                              *)
(***************************************************************************)
\* the lines the scanner delivers for a content, in order
RECURSIVE Lines(_)
Lines(data) ==
    IF data = <<>> \/ ScanTooLong(data) THEN <<>>
    ELSE <<ScanToken(data)>> \o Lines(ScanAdvance(data))

KeyText(line) ==
    LET i == IndexOf(line, "=") IN TrimSpace(SubSeq(line, 1, i - 1))

ValueText(line) ==
    LET i == IndexOf(line, "=") IN TrimSpace(SubSeq(line, i + 1, Len(line)))

CountEq(line) == Cardinality({i \in 1..Len(line) : line[i] = "="})

NoNul(s) == \A i \in 1..Len(s) : s[i] # "NUL"

\* the value is one '[' ... ']' pair around the whole of it
FullyWrapped(v) == Len(v) > 2 /\ v[1] = "[" /\ v[Len(v)] = "]"

Inner(v) == SubSeq(v, 2, Len(v) - 1)

\* parseAndSetEnv rejects the (non-blank) line, whatever the environment holds
Rejects(line) ==
    ~IsBlank(line) /\ parseAndSetEnv(TrimSpace(line), 0, EmptyEnv).err # NilErr

\* parseAndSetEnv has just returned from the last line scanned
Parsed ==
    /\ trace # <<>>
    /\ Last.did # "skip"
    /\ pc = "scan" \/ (LoadReturned /\ ret.err.kind = "ParseError")

\* the environment before the last line scanned
EnvBefore == ApplyTrace(env0, trace, Len(trace) - 1)

\* the last line scanned was written: parseAndSetEnv returned no error and
\* the environment is the one before with key set to value
Wrote(key, value) ==
    /\ Last.did = "set"
    /\ Last.key = key
    /\ Last.value = value
    /\ ret = Running
    /\ key \in DOMAIN osenv
    /\ osenv[key] = value
    /\ \A k \in DOMAIN osenv \ {key} : k \in DOMAIN EnvBefore /\ osenv[k] = EnvBefore[k]
    /\ DOMAIN EnvBefore \subseteq DOMAIN osenv

\* the last line scanned was rejected with the reason, and nothing was written
RejectedWith(reason) ==
    /\ Last.did = "reject"
    /\ LoadReturned
    /\ ret.err.kind = "ParseError"
    /\ ret.err.reason = reason
    /\ ret.err.lineNum = Last.n
    /\ ret.err.line = Last.line
    /\ ErrorContains(ret.err, "failed to set environment variable")
    /\ osenv = EnvBefore

BracketCase(line) ==
    /\ CountEq(line) >= 2
    /\ KeyText(line) # <<>>
    /\ Contains(ValueText(line), "=")
    /\ FullyWrapped(ValueText(line))

\* C3 as claimed: every line with a non-empty key whose value contains '=',
\* is longer than 2, starts with '[' and ends with ']' is accepted, and the
\* key is written with the text between the outer brackets, unchanged.
C3_BracketAlwaysWritten ==
    (Parsed /\ BracketCase(Last.line)) =>
        Wrote(KeyText(Last.line), Inner(ValueText(Last.line)))

\* C3 amended: such a line is accepted and the key written with the text
\* between the outer brackets, unchanged, provided os.Setenv accepts the
\* pair (neither the key nor that text holds a NUL byte); otherwise
\* parseAndSetEnv returns a ParseError "failed to set environment variable:
\* ..." and writes nothing.  "FOO=[a=b]" sets FOO to "a=b".
C3_BracketWrittenIfAccepted ==
    /\ (Parsed /\ BracketCase(Last.line)) =>
          LET key == KeyText(Last.line)
              inner == Inner(ValueText(Last.line))
          IN  IF NoNul(key) /\ NoNul(inner)
              THEN Wrote(key, inner)
              ELSE RejectedWith("failed to set environment variable: setenv: invalid argument")
    /\ (secret = S_FOO_a_b /\ LoadReturned /\ lastAccessOK) =>
          /\ ret.err = NilErr
          /\ osenv[FOO] = <<"a", "=", "b">>

C3_Witness ==
    /\ secret = S_K_spaces
    /\ Parsed
    /\ osenv[<<"K">>] = <<" ", "a", "=", "b", " ">>

\* the value is '[', one '=' with no bracket around it, ']'
SimplyWrapped(v) ==
    /\ FullyWrapped(v)
    /\ CountEq(Inner(v)) = 1
    /\ ~Contains(Inner(v), "[")
    /\ ~Contains(Inner(v), "]")

\* C4 as claimed: every line (with a key) whose value contains '=' and is
\* not exactly one '=' inside one bracket pair around the whole value, that
\* is with nested brackets, several '=' or brackets around a part only, is
\* rejected with "invalid specific key-value pair" and writes nothing.
C4_OnlySimpleBracketAccepted ==
    (/\ Parsed
     /\ CountEq(Last.line) >= 2
     /\ KeyText(Last.line) # <<>>
     /\ ~SimplyWrapped(ValueText(Last.line))) =>
        RejectedWith("invalid specific key-value pair")

\* C4 amended: every line (with a key) whose value contains '=' and is not
\* longer than 2 bytes with '[' first and ']' last (brackets around a part
\* only, as "K=[a=b" and "K=x[a=b]") is rejected with "invalid specific
\* key-value pair" and writes nothing.  What lies between the outer brackets
\* is not looked at: nested brackets ("K=[[a=b]]") and several '='
\* ("K=[a=b=c]") are accepted and written with the outer pair removed.
C4_PartialBracketRejected ==
    /\ (/\ Parsed
        /\ CountEq(Last.line) >= 2
        /\ KeyText(Last.line) # <<>>
        /\ ~FullyWrapped(ValueText(Last.line))) =>
          RejectedWith("invalid specific key-value pair")
    /\ (secret \in {S_K_open, S_K_partial} /\ LoadReturned /\ lastAccessOK) =>
          /\ ret.err.reason = "invalid specific key-value pair"
          /\ osenv = env0
    /\ (secret = S_K_nested /\ LoadReturned /\ lastAccessOK) =>
          /\ ret.err = NilErr
          /\ osenv[<<"K">>] = <<"[", "a", "=", "b", "]">>
    /\ (secret = S_K_two_eq /\ LoadReturned /\ lastAccessOK) =>
          /\ ret.err = NilErr
          /\ osenv[<<"K">>] = <<"a", "=", "b", "=", "c">>

C4_Witness ==
    /\ secret = S_K_partial
    /\ Parsed
    /\ Last.did = "reject"
    /\ ret.err.reason = "invalid specific key-value pair"

\* C9 as claimed: every line with exactly one '=' and a non-empty key is
\* accepted, and the key is written with the trimmed text after the '=',
\* the empty string included.
C9_OneEqAlwaysWritten ==
    (Parsed /\ CountEq(Last.line) = 1 /\ KeyText(Last.line) # <<>>) =>
        Wrote(KeyText(Last.line), ValueText(Last.line))

\* C9 amended: such a line is accepted and the key written with the trimmed
\* text after the '=' (the empty string included) provided os.Setenv accepts
\* the pair (neither key nor value holds a NUL byte); otherwise parseAndSetEnv
\* returns a ParseError "failed to set environment variable: ..." and writes
\* nothing.  The payload "FOO=bar" sets FOO to "bar" and LoadSecretToEnv
\* returns no error.
C9_OneEqWrittenIfAccepted ==
    /\ (Parsed /\ CountEq(Last.line) = 1 /\ KeyText(Last.line) # <<>>) =>
          LET key == KeyText(Last.line)
              value == ValueText(Last.line)
          IN  IF NoNul(key) /\ NoNul(value)
              THEN Wrote(key, value)
              ELSE RejectedWith("failed to set environment variable: setenv: invalid argument")
    /\ (secret = S_FOO_bar /\ LoadReturned /\ lastAccessOK) =>
          /\ ret.err = NilErr
          /\ osenv[FOO] = <<"b", "a", "r">>
    /\ (secret = S_KEY_empty /\ LoadReturned /\ lastAccessOK) =>
          /\ ret.err = NilErr
          /\ osenv[<<"K", "E", "Y">>] = <<>>

C9_Witness ==
    /\ secret = S_spaced
    /\ Parsed
    /\ <<"B">> \in DOMAIN osenv
    /\ osenv[<<"B">>] = <<"c">>

\* the scanner is about to deliver a line that is empty or only whitespace
BlankNext ==
    /\ pc = "scan"
    /\ scanRest # <<>>
    /\ ~ScanTooLong(scanRest)
    /\ IsBlank(ScanToken(scanRest))

\* C10: every line the scanner delivers that is empty or only whitespace is
\* skipped: the step over it returns no error, leaves the environment as it
\* is and stays in the loop, which goes on with the line after it (counted
\* as the next line number).
C10_BlankLineSkipped ==
    [][BlankNext =>
          /\ osenv' = osenv
          /\ ret' = Running
          /\ pc' = "scan"
          /\ lineNum' = lineNum + 1
          /\ scanRest' = ScanAdvance(scanRest)
          /\ trace' = Append(trace, [n |-> lineNum + 1, line |-> <<>>, did |-> "skip",
                                     key |-> <<>>, value |-> <<>>])]_vars

C10_Witness ==
    /\ Len(trace) = 3
    /\ trace[1].did = "skip"
    /\ trace[2].did = "skip"
    /\ trace[3].did = "set"
    /\ osenv # env0

====
